---- MODULE Spec2Model ----
(***************************************************************************)
(* A model of lxc_autoscale/lxc_utils.py: the command executor, the        *)
(* container inventory, the resource probes, the settings ledger (backup,  *)
(* load, rollback), the collection cycle on its pool of two workers, and   *)
(* the prioritizer.                                                        *)
(*                                                                         *)
(* The names the file uses without importing them (config, paramiko,       *)
(* ThreadPoolExecutor, as_completed, send_notification) are taken to       *)
(* resolve to the library objects of those names.                          *)
(*                                                                         *)
(* Text is a sequence of one-character strings.  Percentages, which the    *)
(* program holds as floats, are exact rationals here: a fraction           *)
(* [num, den] with den > 0.                                                *)
(***************************************************************************)
EXTENDS Integers, Sequences, FiniteSets, TLC

VARIABLES
    pc,             \* per thread: where it is in the function it executes
    loc,            \* per thread: the local variables of its call
    lock,           \* the module's Lock: the thread holding it, or Free
    files,          \* BACKUP_DIR: per container id, the text of <ctid>_backup.json, or Absent
    ledger,         \* history: per container id, the settings a load would have to return
    lastRb,         \* history: the container and the commands of the latest rollback()
    prevRb,         \* history: those of the rollback() before it, if no backup() came between
    futures,        \* per container id, the Future of its get_container_data call
    queue,          \* the pool's work queue: the submitted calls no worker has taken
    fate,           \* history: per container id, how its pipeline went
    containers,     \* the dict collect_container_data fills and returns
    items,          \* prioritize_containers: containers.items() of its argument
    priorities,     \* prioritize_containers: what it returned
    prioPc,         \* "start" before the call to prioritize_containers, "done" after it
    probeIn,        \* a probe call: the probe and what run_command gives it
    probeRet,       \* what the probe returned or raised
    probeCalls,     \* the run_command calls the probe has made
    probePc,        \* "start" before the probe call, "done" after it
    execIn,         \* a run_command call: use_remote_proxmox and the bytes the command prints
    execPc,         \* where the call is in run_command, run_local_command or run_remote_command
    execRet,        \* what the call returned or raised
    ssh,            \* run_remote_command: its SSHClient, "none", "created", "connected" or "closed"
    eventLog,       \* the JSON event log: its lines, each a record and whether it is whole
    appends,        \* history: the records of the log_json_event calls, in the order they took the lock
    written         \* history: per container id, the latest settings a backup wrote completely

threadVars == <<pc, loc, lock>>
ledgerVars == <<files, ledger, lastRb, prevRb>>
prioVars == <<items, priorities, prioPc>>
cycleVars == <<futures, queue, fate>>
probeVars == <<probeIn, probeRet, probeCalls, probePc>>
execVars == <<execIn, execPc, execRet, ssh>>
storeVars == <<eventLog, appends, written>>
vars == <<threadVars, ledgerVars, cycleVars, containers, prioVars, probeVars, execVars, storeVars>>

\* ------------------------------------------------------------------ bounds
\* Largest cores value of a container's settings.
MaxCores == 2
\* Number of distinct memory values of a container's settings.
MaxMemory == 1
\* Longest text drawn as the output a probe reads.
MaxTextLen == 2
\* Largest number of bytes drawn as the output of a command.
MaxOutLen == 2
\* Largest utilisation value drawn for a metrics map handed to the prioritizer.
MaxPct == 1
\* Largest number of entries of a metrics map handed to the prioritizer.
MaxMapLen == 3

\* ------------------------------------------------------------------ values
\* Python's None, and the marker of a value that does not exist yet.
NoneV == [kind |-> "None"]
NoValue == [kind |-> "NoValue"]

\* The lock is free, a backup file does not exist.
Free == "Free"
Absent == [kind |-> "Absent"]

\* Container ids, as `pct list` prints them, and those the ledger's callers use.
CtIds == {101, 102, 103, 104}
LedgerIds == {101, 102}

\* A settings dict {"cores": c, "memory": m}.
Settings(c, m) == [kind |-> "dict", cores |-> c, memory |-> m]
\* Memory values are kept apart from cores values.
CoresValues == 1..MaxCores
MemoryValues == (MaxCores + 1)..(MaxCores + MaxMemory)
ValidSettings == { Settings(c, m) : c \in CoresValues, m \in MemoryValues }

\* -------------------------------------------------------------------- text
Digits == <<"0", "1", "2", "3", "4", "5", "6", "7", "8", "9">>
IsDigit(ch) == \E i \in 1..10 : Digits[i] = ch
DigitVal(ch) == (CHOOSE i \in 1..10 : Digits[i] = ch) - 1
IsSpace(ch) == ch \in {" ", "\n", "\t"}

\* str.strip()
RECURSIVE LStrip(_)
LStrip(s) == IF s # << >> /\ IsSpace(Head(s)) THEN LStrip(Tail(s)) ELSE s
RECURSIVE RStrip(_)
RStrip(s) == IF s # << >> /\ IsSpace(s[Len(s)]) THEN RStrip(SubSeq(s, 1, Len(s) - 1)) ELSE s
Strip(s) == RStrip(LStrip(s))

RECURSIVE DigitsVal(_, _)
DigitsVal(s, acc) == IF s = << >> THEN acc ELSE DigitsVal(Tail(s), 10 * acc + DigitVal(Head(s)))

\* str(n) for n >= 0
RECURSIVE NatText(_)
NatText(n) == IF n < 10 THEN <<Digits[n + 1]>> ELSE NatText(n \div 10) \o <<Digits[(n % 10) + 1]>>

\* What an expression evaluates to: a value, or the exception it raises.
Val(v) == [exc |-> "none", val |-> v]
Exc(e) == [exc |-> e]

\* int(x) for x a str or None: surrounding whitespace and a sign are
\* accepted, anything but decimal digits after them is a ValueError.
PyInt(x) ==
    IF x = NoneV THEN Exc("TypeError")
    ELSE LET t == Strip(x.text)
             signed == t # << >> /\ Head(t) \in {"-", "+"}
             body == IF signed THEN Tail(t) ELSE t
         IN  IF body = << >> \/ \E i \in 1..Len(body) : ~IsDigit(body[i])
             THEN Exc("ValueError")
             ELSE Val(IF signed /\ Head(t) = "-" THEN 0 - DigitsVal(body, 0) ELSE DigitsVal(body, 0))

\* A float, kept exact: num / den with den > 0.
Frac(n, d) == IF d < 0 THEN [num |-> 0 - n, den |-> 0 - d] ELSE [num |-> n, den |-> d]
FracLess(a, b) == a.num * b.den < b.num * a.den
FracEq(a, b) == a.num * b.den = b.num * a.den
Zero == Frac(0, 1)

RECURSIVE Pow10(_)
Pow10(k) == IF k = 0 THEN 1 ELSE 10 * Pow10(k - 1)

\* float(x) for x a str: a decimal numeral with an optional sign and an
\* optional fraction part; other text is a ValueError.
PyFloat(x) ==
    LET t == Strip(x.text)
        signed == t # << >> /\ Head(t) \in {"-", "+"}
        body == IF signed THEN Tail(t) ELSE t
        dots == { i \in 1..Len(body) : body[i] = "." }
        dot == IF dots = {} THEN Len(body) + 1 ELSE CHOOSE i \in dots : TRUE
        whole == SubSeq(body, 1, dot - 1)
        part == SubSeq(body, dot + 1, Len(body))
        digits == whole \o part
    IN  IF \/ Cardinality(dots) > 1
           \/ digits = << >>
           \/ \E i \in 1..Len(digits) : ~IsDigit(digits[i])
        THEN Exc("ValueError")
        ELSE Val(Frac(IF signed /\ Head(t) = "-" THEN 0 - DigitsVal(digits, 0) ELSE DigitsVal(digits, 0),
                      Pow10(Len(part))))

\* str.lower(), for the letters the status texts hold.
LowerChar(ch) == IF ch = "S" THEN "s" ELSE IF ch = "R" THEN "r" ELSE ch
Lower(s) == [i \in 1..Len(s) |-> LowerChar(s[i])]
\* sub in s
Contains(s, sub) == \E i \in 0..(Len(s) - Len(sub)) : SubSeq(s, i + 1, i + Len(sub)) = sub

\* A str returned by run_command.
Out(text) == [kind |-> "str", text |-> text]
\* bool(x) for x a str or None: None and "" are false.
Truthy(x) == x # NoneV /\ x.text # << >>

\* -------------------------------------------------------------------- JSON
\* json.dump(settings, f) writes the text in pieces, here one per member of
\* the dict; an interrupted write leaves the first pieces in the file.
JsonDump(s) == << <<"cores", NatText(s.cores)>>, <<"memory", NatText(s.memory)>> >>

\* json.load(f): the dict the text denotes, or a JSONDecodeError when the
\* text is not a complete document.
JsonLoad(text) ==
    IF /\ Len(text) = 2
       /\ text[1][1] = "cores"
       /\ text[2][1] = "memory"
    THEN Val(Settings(DigitsVal(text[1][2], 0), DigitsVal(text[2][2], 0)))
    ELSE Exc("JSONDecodeError")

\* A file of BACKUP_DIR holding `text`.
File(text) == [kind |-> "file", text |-> text]

\* No probe call and no run_command call is under way.
InitProbeIdle ==
    /\ probeIn = NoValue
    /\ probeRet = NoValue
    /\ probeCalls = 0
    /\ probePc = "start"

InitExecIdle ==
    /\ execIn = NoValue
    /\ execPc = "start"
    /\ execRet = NoValue
    /\ ssh = "none"

\* ----------------------------------------------------------------- threads
\* The thread calling collect_container_data, the two workers of its pool,
\* and a thread calling the ledger's functions directly.
MaxWorkers == 2
WorkerNames == <<"W1", "W2">>
WorkersOnePerContainer == { "W1", "W2", "W3" }
Workers == { WorkerNames[i] : i \in 1..MaxWorkers }
ApiThreads == { "A1" }
\* Two threads that use the backup files and the event log at the same time.
SharedThreads == { "A1", "A2" }
Threads == { "M" } \cup Workers \cup ApiThreads \cup SharedThreads

\* The locals of a call: the container, the settings handed to backup or
\* loaded, where a nested call returns to, what the call returned, the
\* mutation commands a rollback issued, the pipeline's readings, and what
\* its status query gave, in lower case; the record log_json_event builds.
NoLocals ==
    [ctid |-> 0, settings |-> NoValue, cont |-> "", ret |-> NoValue, cmds |-> << >>,
     cores |-> 0, memory |-> 0, cpu |-> NoValue, used |-> NoValue, status |-> NoValue,
     rec |-> NoValue]

\* What run_command gives its caller: a str, None, or (from the handler of
\* run_local_command that decodes the failed command's output) an exception.
RunCommandOutcomes == { "output", "none", "raise" }

\* ------------------------------------------------------------------ ledger
\* os.path.join(BACKUP_DIR, f"{ctid}_backup.json"): the file of container ctid.
BackupFileShared(ctid) == 101
BackupFile(ctid) == ctid

\* backup_container_settings(ctid, settings), entered by thread t, which
\* resumes at `cont` when it returns.
EnterBackup(t, ctid, settings, cont) ==
    /\ pc' = [pc EXCEPT ![t] = "bk_makedirs"]
    /\ loc' = [loc EXCEPT ![t].ctid = ctid, ![t].settings = settings, ![t].cont = cont]
    /\ lastRb' = NoValue
    /\ prevRb' = NoValue

\* os.makedirs(BACKUP_DIR, exist_ok=True): the directory is there, or the
\* call raises and the except clause logs it and returns.
BackupMakedirs(t) ==
    /\ pc[t] = "bk_makedirs"
    /\ \/ pc' = [pc EXCEPT ![t] = "bk_lock"]
       \/ pc' = [pc EXCEPT ![t] = loc[t].cont]
    /\ UNCHANGED <<loc, lock, ledgerVars, cycleVars, containers, prioVars, probeVars, execVars, storeVars>>

\* with lock:
BackupAcquire(t) ==
    /\ pc[t] = "bk_lock"
    /\ lock = Free
    /\ lock' = t
    /\ pc' = [pc EXCEPT ![t] = "bk_open"]
    /\ UNCHANGED <<loc, ledgerVars, cycleVars, containers, prioVars, probeVars, execVars, storeVars>>

\* open(backup_file, 'w'): the file exists and is empty, or open raises, the
\* lock is released and the except clause returns.
BackupOpen(t) ==
    /\ pc[t] = "bk_open"
    /\ \/ /\ files' = [files EXCEPT ![BackupFile(loc[t].ctid)] = File(<< >>)]
          /\ ledger' = [ledger EXCEPT ![loc[t].ctid] = NoneV]
          /\ pc' = [pc EXCEPT ![t] = "bk_write"]
          /\ UNCHANGED lock
       \/ /\ lock' = Free
          /\ pc' = [pc EXCEPT ![t] = loc[t].cont]
          /\ UNCHANGED <<files, ledger>>
    /\ UNCHANGED <<loc, lastRb, prevRb, cycleVars, containers, prioVars, probeVars, execVars, storeVars>>

\* json.dump(settings, f) and the end of both with blocks: the whole text
\* is in the file, or the write raises after some pieces; the lock is
\* released either way.
BackupWrite(t) ==
    /\ pc[t] = "bk_write"
    /\ \/ /\ files' = [files EXCEPT ![BackupFile(loc[t].ctid)] = File(JsonDump(loc[t].settings))]
          /\ ledger' = [ledger EXCEPT ![loc[t].ctid] = loc[t].settings]
          /\ written' = [written EXCEPT ![loc[t].ctid] = loc[t].settings]
       \/ /\ \E k \in 0..(Len(JsonDump(loc[t].settings)) - 1) :
                files' = [files EXCEPT ![BackupFile(loc[t].ctid)] =
                              File(SubSeq(JsonDump(loc[t].settings), 1, k))]
          /\ UNCHANGED <<ledger, written>>
    /\ lock' = Free
    /\ pc' = [pc EXCEPT ![t] = loc[t].cont]
    /\ UNCHANGED <<loc, lastRb, prevRb, cycleVars, containers, prioVars, probeVars, execVars, eventLog, appends>>

\* What load_backup_settings returns for the file it finds: None when there
\* is none and when json.load raises.
load_backup_settings(file) ==
    IF file = Absent THEN NoneV
    ELSE IF JsonLoad(file.text).exc = "none" THEN JsonLoad(file.text).val ELSE NoneV

\* load_backup_settings(ctid), entered by thread t.
EnterLoad(t, ctid, cont) ==
    /\ pc' = [pc EXCEPT ![t] = "ld_exists"]
    /\ loc' = [loc EXCEPT ![t] = [NoLocals EXCEPT
                   !.ctid = ctid, !.cont = cont,
                   !.settings = IF loc[t].ctid = ctid THEN loc[t].settings ELSE NoValue]]

\* if os.path.exists(backup_file): ... else: return None
LoadExists(t) ==
    /\ pc[t] = "ld_exists"
    /\ IF files[BackupFile(loc[t].ctid)] = Absent
       THEN /\ pc' = [pc EXCEPT ![t] = loc[t].cont]
            /\ loc' = [loc EXCEPT ![t].ret = NoneV]
       ELSE /\ pc' = [pc EXCEPT ![t] = "ld_lock"]
            /\ UNCHANGED loc
    /\ UNCHANGED <<lock, ledgerVars, cycleVars, containers, prioVars, probeVars, execVars, storeVars>>

\* with lock:
LoadAcquire(t) ==
    /\ pc[t] = "ld_lock"
    /\ lock = Free
    /\ lock' = t
    /\ pc' = [pc EXCEPT ![t] = "ld_read"]
    /\ UNCHANGED <<loc, ledgerVars, cycleVars, containers, prioVars, probeVars, execVars, storeVars>>

\* settings = json.load(f); return settings -- or, on an exception, the
\* except clause returns None.  The lock is released either way.
LoadRead(t) ==
    /\ pc[t] = "ld_read"
    /\ loc' = [loc EXCEPT ![t].ret = load_backup_settings(files[BackupFile(loc[t].ctid)])]
    /\ lock' = Free
    /\ pc' = [pc EXCEPT ![t] = loc[t].cont]
    /\ UNCHANGED <<ledgerVars, cycleVars, containers, prioVars, probeVars, execVars, storeVars>>

\* The command run_command is given by rollback_container_settings.
PctSet(ctid, option, value) == [cmd |-> "pct set", ctid |-> ctid, option |-> option, value |-> value]

\* rollback_container_settings(ctid), entered by thread t: it starts with
\* settings = load_backup_settings(ctid).
EnterRollback(t, ctid) ==
    /\ pc' = [pc EXCEPT ![t] = "ld_exists"]
    /\ loc' = [loc EXCEPT ![t] = [NoLocals EXCEPT !.ctid = ctid, !.cont = "rb_check"]]

\* The call of rollback_container_settings ends, by a return or an exception.
LeaveRollback(t, cmds) ==
    /\ pc' = [pc EXCEPT ![t] = "idle"]
    /\ loc' = [loc EXCEPT ![t] = NoLocals]
    /\ prevRb' = lastRb
    /\ lastRb' = [kind |-> "rollback", ctid |-> loc[t].ctid, cmds |-> cmds]

\* if settings:
RollbackCheck(t) ==
    /\ pc[t] = "rb_check"
    /\ IF loc[t].ret # NoneV
       THEN /\ pc' = [pc EXCEPT ![t] = "rb_cores"]
            /\ UNCHANGED <<loc, lastRb, prevRb>>
       ELSE LeaveRollback(t, << >>)
    /\ UNCHANGED <<lock, files, ledger, cycleVars, containers, prioVars, probeVars, execVars, storeVars>>

\* run_command(f"pct set {ctid} -cores {settings['cores']}")
RollbackCores(t) ==
    /\ pc[t] = "rb_cores"
    /\ LET cmds == <<PctSet(loc[t].ctid, "cores", loc[t].ret.cores)>>
       IN  \E outcome \in RunCommandOutcomes :
               IF outcome = "raise"
               THEN LeaveRollback(t, cmds)
               ELSE /\ pc' = [pc EXCEPT ![t] = "rb_memory"]
                    /\ loc' = [loc EXCEPT ![t].cmds = cmds]
                    /\ UNCHANGED <<lastRb, prevRb>>
    /\ UNCHANGED <<lock, files, ledger, cycleVars, containers, prioVars, probeVars, execVars, storeVars>>

\* run_command(f"pct set {ctid} -memory {settings['memory']}"), then the
\* notification, which issues no command.
RollbackMemoryConsuming(t) ==
    /\ pc[t] = "rb_memory"
    /\ \E outcome \in RunCommandOutcomes :
           LeaveRollback(t, Append(loc[t].cmds, PctSet(loc[t].ctid, "memory", loc[t].ret.memory)))
    /\ files' = [files EXCEPT ![BackupFile(loc[t].ctid)] = Absent]
    /\ UNCHANGED <<lock, ledger, cycleVars, containers, prioVars, probeVars, execVars, storeVars>>
RollbackMemory(t) ==
    /\ pc[t] = "rb_memory"
    /\ \E outcome \in RunCommandOutcomes :
           LeaveRollback(t, Append(loc[t].cmds, PctSet(loc[t].ctid, "memory", loc[t].ret.memory)))
    /\ UNCHANGED <<lock, files, ledger, cycleVars, containers, prioVars, probeVars, execVars, storeVars>>

\* A caller of the ledger: backup(ctid, s), load(ctid) or rollback(ctid).
CallBackup(t) ==
    /\ pc[t] = "idle"
    /\ \E ctid \in LedgerIds, s \in ValidSettings : EnterBackup(t, ctid, s, "idle")
    /\ UNCHANGED <<lock, files, ledger, cycleVars, containers, prioVars, probeVars, execVars, storeVars>>

CallLoad(t) ==
    /\ pc[t] = "idle"
    /\ \E ctid \in LedgerIds : EnterLoad(t, ctid, "ld_done")
    /\ UNCHANGED <<lock, ledgerVars, cycleVars, containers, prioVars, probeVars, execVars, storeVars>>

\* The caller has load's result in hand.
LoadReturned(t) ==
    /\ pc[t] = "ld_done"
    /\ pc' = [pc EXCEPT ![t] = "idle"]
    /\ loc' = [loc EXCEPT ![t] = NoLocals]
    /\ UNCHANGED <<lock, ledgerVars, cycleVars, containers, prioVars, probeVars, execVars, storeVars>>

CallRollback(t) ==
    /\ pc[t] = "idle"
    /\ \E ctid \in LedgerIds : EnterRollback(t, ctid)
    /\ UNCHANGED <<lock, ledgerVars, cycleVars, containers, prioVars, probeVars, execVars, storeVars>>

\* A step of thread t inside backup_container_settings.
BackupStep(t) ==
    \/ BackupMakedirs(t)
    \/ BackupAcquire(t)
    \/ BackupOpen(t)
    \/ BackupWrite(t)

\* A step of thread t inside any function of the ledger.
LedgerStep(t) ==
    \/ BackupStep(t)
    \/ LoadExists(t)
    \/ LoadAcquire(t)
    \/ LoadRead(t)
    \/ RollbackCheck(t)
    \/ RollbackCores(t)
    \/ RollbackMemory(t)

InitThreads ==
    /\ pc = [t \in Threads |-> IF t = "M" THEN "m_idle" ELSE IF t \in Workers THEN "w_idle" ELSE "idle"]
    /\ loc = [t \in Threads |-> NoLocals]
    /\ lock = Free

\* The event log is empty and no backup has been written.
InitStore ==
    /\ eventLog = << >>
    /\ appends = << >>
    /\ written = [c \in CtIds |-> NoneV]

\* containers = {}: no id is a key of the dict.
NoContainers == [c \in CtIds |-> NoValue]

InitCycle ==
    /\ futures = [c \in CtIds |-> [kind |-> "none"]]
    /\ queue = << >>
    /\ fate = [c \in CtIds |-> "unlisted"]

InitLedger ==
    /\ InitThreads
    /\ InitStore
    /\ files = [c \in CtIds |-> Absent]
    /\ ledger = [c \in CtIds |-> NoneV]
    /\ lastRb = NoValue
    /\ prevRb = NoValue
    /\ InitCycle
    /\ containers = NoContainers
    /\ items = << >>
    /\ priorities = NoValue
    /\ prioPc = "start"
    /\ InitProbeIdle
    /\ InitExecIdle

NextLedger ==
    \E t \in ApiThreads :
        \/ CallBackup(t)
        \/ CallLoad(t)
        \/ LoadReturned(t)
        \/ CallRollback(t)
        \/ LedgerStep(t)

SpecLedger == InitLedger /\ [][NextLedger]_vars

\* The commands that restore settings s of container ctid: none when there
\* is no backup.
RestoreCommands(ctid, s) ==
    IF s = NoneV THEN << >>
    ELSE <<PctSet(ctid, "cores", s.cores), PctSet(ctid, "memory", s.memory)>>

\* C3: a rollback(id) that has ended issued no command when no backup of id
\* exists and otherwise exactly the two commands that set cores and memory
\* to the values of the most recent backup of id.
C3_RollbackIssuesExactlyTheRestoreCommands ==
    lastRb # NoValue =>
        lastRb.cmds = RestoreCommands(lastRb.ctid, ledger[lastRb.ctid])

\* C4: two rollback(id) calls with no backup between them issued the same
\* commands, whatever the executor answered.
C4_RollbackTwiceSameCommands ==
    (prevRb # NoValue /\ lastRb # NoValue /\ prevRb.ctid = lastRb.ctid) =>
        prevRb.cmds = lastRb.cmds

IGNORE_LXC == {104}
is_ignored(ctid) == ctid \in IGNORE_LXC

\* What `pct list | awk 'NR>1 {print $1}'` may print: one id per line.
Listings == { << >>, <<101>>, <<101, 102>>, <<102, 104, 101>>, <<101, 102, 103>>, <<104, 103, 102, 101>> }

\* get_containers(), given the str run_command returned: its lines, less
\* the ignored ids.
RECURSIVE get_containers(_)
get_containers(lines) ==
    IF lines = << >> THEN << >>
    ELSE IF Head(lines) \in IGNORE_LXC
         THEN get_containers(Tail(lines))
         ELSE <<Head(lines)>> \o get_containers(Tail(lines))

\* What `pct status <ctid>` may print.
StatusRunning == <<"s", "t", "a", "t", "u", "s", ":", " ", "r", "u", "n", "n", "i", "n", "g">>
StatusStopped == <<"s", "t", "a", "t", "u", "s", ":", " ", "s", "t", "o", "p", "p", "e", "d">>
StatusTexts == { StatusRunning, StatusStopped, <<"S">> \o Tail(StatusRunning) }

\* is_container_running(ctid), given what run_command returned.
is_container_running_fail_open(status) ==
    \/ status = NoneV
    \/ Contains(Lower(status.text), StatusRunning)
is_container_running(status) ==
    /\ Truthy(status)
    /\ Contains(Lower(status.text), StatusRunning)

\* What the two `pct config` pipelines may print: a number, or text that is
\* none (no such line, or two of them).
CoresTexts == { <<"2">>, << >> }
MemoryTexts == { <<"3">>, <<"5", "\n", "5">> }

\* What the awk over /proc/stat may print.
CpuTexts == { <<"5">> }
\* What the two awk calls over /proc/meminfo may print.
MemUsedTexts == { <<"1">> }
MemTotalTexts == { <<"2">>, <<"0">> }

\* get_cpu_usage(ctid), given what run_command returned: the reading, and
\* whether it is the 0.0 of a failed probe.
get_cpu_usage(usage) ==
    IF usage # NoneV /\ PyFloat(usage).exc = "none"
    THEN [value |-> PyFloat(usage).val, failed |-> FALSE]
    ELSE [value |-> Zero, failed |-> TRUE]

\* get_memory_usage(ctid), given what its two run_command calls returned:
\* the exception that leaves it, or the reading and whether it is the 0.0
\* of a failed probe.  Only ValueError is caught.
get_memory_usage(mem_used, mem_total) ==
    IF Truthy(mem_used) /\ Truthy(mem_total)
    THEN IF PyInt(mem_used).exc # "none" \/ PyInt(mem_total).exc # "none"
         THEN Val([value |-> Zero, failed |-> TRUE])
         ELSE IF PyInt(mem_total).val = 0
              THEN Exc("ZeroDivisionError")
              ELSE Val([value |-> Frac(PyInt(mem_used).val * 100, PyInt(mem_total).val), failed |-> FALSE])
    ELSE Val([value |-> Zero, failed |-> TRUE])

\* settings = {"cores": cores, "memory": memory}
PipelineSettingsSwapped(cores, memory) == Settings(memory, cores)
PipelineSettings(cores, memory) == Settings(cores, memory)

\* The dict get_container_data returns.
Data(cpu, mem, cores, memory) ==
    [kind |-> "data", cpu |-> cpu, mem |-> mem, initial_cores |-> cores, initial_memory |-> memory]

\* One item of containers.items(): the pair (ctid, data).
Item(ctid, data) == [ctid |-> ctid, data |-> data]

\* get_container_data returns `value` (a dict or None): the Future is done
\* and the worker is free again.
GcdReturn(t, value, how) ==
    /\ futures' = [futures EXCEPT ![loc[t].ctid] = [kind |-> "done", value |-> value]]
    /\ fate' = [fate EXCEPT ![loc[t].ctid] = how]
    /\ pc' = [pc EXCEPT ![t] = "w_idle"]
    /\ loc' = [loc EXCEPT ![t] = NoLocals]

\* An exception leaves get_container_data: the Future holds it.
GcdRaise(t) ==
    /\ futures' = [futures EXCEPT ![loc[t].ctid] = [kind |-> "exception"]]
    /\ fate' = [fate EXCEPT ![loc[t].ctid] = "raised"]
    /\ pc' = [pc EXCEPT ![t] = "w_idle"]
    /\ loc' = [loc EXCEPT ![t] = NoLocals]

\* A worker takes the next submitted call and enters get_container_data:
\* if is_ignored(ctid): return None
WorkerTake(t) ==
    /\ pc[t] = "w_idle"
    /\ queue # << >>
    /\ queue' = Tail(queue)
    /\ IF is_ignored(Head(queue))
       THEN /\ futures' = [futures EXCEPT ![Head(queue)] = [kind |-> "done", value |-> NoneV]]
            /\ fate' = [fate EXCEPT ![Head(queue)] = "ignored"]
            /\ UNCHANGED <<pc, loc>>
       ELSE /\ futures' = [futures EXCEPT ![Head(queue)] = [kind |-> "running"]]
            /\ pc' = [pc EXCEPT ![t] = "gcd_status"]
            /\ loc' = [loc EXCEPT ![t].ctid = Head(queue)]
            /\ UNCHANGED fate
    /\ UNCHANGED <<lock, ledgerVars, containers, prioVars, probeVars, execVars, storeVars>>

\* if not is_container_running(ctid): return None -- outside the try block.
GcdStatus(t) ==
    /\ pc[t] = "gcd_status"
    /\ \E outcome \in RunCommandOutcomes :
           \/ /\ outcome = "raise"
              /\ GcdRaise(t)
           \/ /\ outcome # "raise"
              /\ \E status \in IF outcome = "none" THEN {NoneV} ELSE { Out(x) : x \in StatusTexts } :
                     IF is_container_running(status)
                     THEN /\ pc' = [pc EXCEPT ![t] = "gcd_cores"]
                          /\ loc' = [loc EXCEPT ![t].status =
                                         IF status = NoneV THEN NoneV ELSE Out(Lower(status.text))]
                          /\ UNCHANGED <<futures, fate>>
                     ELSE GcdReturn(t, NoneV, "not_running")
    /\ UNCHANGED <<lock, ledgerVars, queue, containers, prioVars, probeVars, execVars, storeVars>>

\* cores = int(run_command(f"pct config {ctid} | grep cores | awk '{{print $2}}'"))
\* Inside the try block: any exception is logged and None is returned.
GcdCores(t) ==
    /\ pc[t] = "gcd_cores"
    /\ \E outcome \in RunCommandOutcomes :
           \/ /\ outcome = "raise"
              /\ GcdReturn(t, NoneV, "raised")
           \/ /\ outcome = "none"
              /\ PyInt(NoneV).exc # "none"
              /\ GcdReturn(t, NoneV, "raised")
           \/ /\ outcome = "output"
              /\ \E text \in CoresTexts :
                     IF PyInt(Out(text)).exc = "none"
                     THEN /\ pc' = [pc EXCEPT ![t] = "gcd_memory"]
                          /\ loc' = [loc EXCEPT ![t].cores = PyInt(Out(text)).val]
                          /\ UNCHANGED <<futures, fate>>
                     ELSE GcdReturn(t, NoneV, "raised")
    /\ UNCHANGED <<lock, ledgerVars, queue, containers, prioVars, probeVars, execVars, storeVars>>

\* memory = int(run_command(f"pct config {ctid} | grep memory | awk '{{print $2}}'"))
\* settings = {"cores": cores, "memory": memory}
\* backup_container_settings(ctid, settings)
GcdMemory(t) ==
    /\ pc[t] = "gcd_memory"
    /\ \E outcome \in RunCommandOutcomes :
           \/ /\ outcome = "raise"
              /\ GcdReturn(t, NoneV, "raised")
              /\ UNCHANGED <<lastRb, prevRb>>
           \/ /\ outcome = "none"
              /\ PyInt(NoneV).exc # "none"
              /\ GcdReturn(t, NoneV, "raised")
              /\ UNCHANGED <<lastRb, prevRb>>
           \/ /\ outcome = "output"
              /\ \E text \in MemoryTexts :
                     IF PyInt(Out(text)).exc = "none"
                     THEN /\ pc' = [pc EXCEPT ![t] = "bk_makedirs"]
                          /\ loc' = [loc EXCEPT
                                 ![t].memory = PyInt(Out(text)).val,
                                 ![t].settings = PipelineSettings(loc[t].cores, PyInt(Out(text)).val),
                                 ![t].cont = "gcd_cpu"]
                          /\ lastRb' = NoValue
                          /\ prevRb' = NoValue
                          /\ UNCHANGED <<futures, fate>>
                     ELSE /\ GcdReturn(t, NoneV, "raised")
                          /\ UNCHANGED <<lastRb, prevRb>>
    /\ UNCHANGED <<lock, files, ledger, queue, containers, prioVars, probeVars, execVars, storeVars>>

\* "cpu": get_cpu_usage(ctid)
GcdCpu(t) ==
    /\ pc[t] = "gcd_cpu"
    /\ \E outcome \in RunCommandOutcomes :
           \/ /\ outcome = "raise"
              /\ GcdReturn(t, NoneV, "raised")
           \/ /\ outcome # "raise"
              /\ \E usage \in IF outcome = "none" THEN {NoneV} ELSE { Out(x) : x \in CpuTexts } :
                     /\ pc' = [pc EXCEPT ![t] = "gcd_mem_used"]
                     /\ loc' = [loc EXCEPT ![t].cpu = get_cpu_usage(usage)]
                     /\ UNCHANGED <<futures, fate>>
    /\ UNCHANGED <<lock, ledgerVars, queue, containers, prioVars, probeVars, execVars, storeVars>>

\* "mem": get_memory_usage(ctid) -- its first run_command
GcdMemUsed(t) ==
    /\ pc[t] = "gcd_mem_used"
    /\ \E outcome \in RunCommandOutcomes :
           \/ /\ outcome = "raise"
              /\ GcdReturn(t, NoneV, "raised")
           \/ /\ outcome # "raise"
              /\ \E used \in IF outcome = "none" THEN {NoneV} ELSE { Out(x) : x \in MemUsedTexts } :
                     /\ pc' = [pc EXCEPT ![t] = "gcd_mem_total"]
                     /\ loc' = [loc EXCEPT ![t].used = used]
                     /\ UNCHANGED <<futures, fate>>
    /\ UNCHANGED <<lock, ledgerVars, queue, containers, prioVars, probeVars, execVars, storeVars>>

\* get_memory_usage(ctid) -- its second run_command and its result; then
\* get_container_data returns the dict, or the exception of the probe is
\* caught, logged and None is returned.
GcdMemTotal(t) ==
    /\ pc[t] = "gcd_mem_total"
    /\ \E outcome \in RunCommandOutcomes :
           \/ /\ outcome = "raise"
              /\ GcdReturn(t, NoneV, "raised")
           \/ /\ outcome # "raise"
              /\ \E total \in IF outcome = "none" THEN {NoneV} ELSE { Out(x) : x \in MemTotalTexts } :
                     LET mem == get_memory_usage(loc[t].used, total)
                     IN  IF mem.exc # "none"
                         THEN GcdReturn(t, NoneV, "raised")
                         ELSE GcdReturn(t,
                                  Data(loc[t].cpu.value, mem.val.value, loc[t].cores, loc[t].memory),
                                  IF loc[t].cpu.failed \/ mem.val.failed THEN "probe_failed" ELSE "ok")
    /\ UNCHANGED <<lock, ledgerVars, queue, containers, prioVars, probeVars, execVars, storeVars>>

\* collect_container_data(): get_containers() and one submit per container.
\* A run_command that returns None makes get_containers raise
\* (None.splitlines()), and nothing catches it.
CollectStart ==
    /\ pc["M"] = "m_idle"
    /\ \E outcome \in RunCommandOutcomes :
           \/ /\ outcome # "output"
              /\ pc' = [pc EXCEPT !["M"] = "m_raised"]
              /\ loc' = [loc EXCEPT !["M"].ret =
                             IF outcome = "none" THEN Exc("AttributeError") ELSE Exc("UnicodeDecodeError")]
              /\ UNCHANGED <<futures, queue, fate>>
           \/ /\ outcome = "output"
              /\ \E lines \in Listings :
                     LET ids == get_containers(lines)
                         listed == { ids[i] : i \in 1..Len(ids) }
                     IN  /\ futures' = [c \in CtIds |-> IF c \in listed THEN [kind |-> "pending"] ELSE futures[c]]
                         /\ fate' = [c \in CtIds |-> IF c \in listed THEN "listed" ELSE fate[c]]
                         /\ queue' = ids
                         /\ pc' = [pc EXCEPT !["M"] = "m_collect"]
                         /\ UNCHANGED loc
    /\ UNCHANGED <<lock, ledgerVars, containers, prioVars, probeVars, execVars, storeVars>>

\* The body of the as_completed loop for one Future:
\* data = future.result(); if data: containers[ctid] = data
\* An exception of the Future is caught and logged.
future_result_unchecked(acc, ctid, future) ==
    IF future.kind = "done" THEN [acc EXCEPT ![ctid] = future.value] ELSE acc
future_result(acc, ctid, future) ==
    IF future.kind = "done" /\ future.value # NoneV
    THEN [acc EXCEPT ![ctid] = future.value]
    ELSE acc

\* as_completed yields a Future that has completed.
CollectNext ==
    /\ pc["M"] = "m_collect"
    /\ \E c \in CtIds :
           /\ futures[c].kind \in {"done", "exception"}
           /\ containers' = future_result(containers, c, futures[c])
           /\ futures' = [futures EXCEPT ![c] = [kind |-> "consumed"]]
    /\ UNCHANGED <<threadVars, ledgerVars, queue, fate, prioVars, probeVars, execVars, storeVars>>

\* Every Future has been yielded: the pool shuts down, return containers.
CollectReturn ==
    /\ pc["M"] = "m_collect"
    /\ \A c \in CtIds : futures[c].kind \in {"none", "consumed"}
    /\ pc' = [pc EXCEPT !["M"] = "m_returned"]
    /\ UNCHANGED <<loc, lock, ledgerVars, cycleVars, containers, prioVars, probeVars, execVars, storeVars>>

Init ==
    /\ InitThreads
    /\ InitStore
    /\ files = [c \in CtIds |-> Absent]
    /\ ledger = [c \in CtIds |-> NoneV]
    /\ lastRb = NoValue
    /\ prevRb = NoValue
    /\ InitCycle
    /\ containers = NoContainers
    /\ items = << >>
    /\ priorities = NoValue
    /\ prioPc = "start"
    /\ InitProbeIdle
    /\ InitExecIdle

Next ==
    \/ CollectStart
    \/ CollectNext
    \/ CollectReturn
    \/ \E t \in Workers :
           \/ WorkerTake(t)
           \/ GcdStatus(t)
           \/ GcdCores(t)
           \/ GcdMemory(t)
           \/ GcdCpu(t)
           \/ GcdMemUsed(t)
           \/ GcdMemTotal(t)
           \/ BackupStep(t)

Spec == Init /\ [][Next]_vars

\* The entry of container c in the dict collect_container_data returns.
InResult(c) == containers[c] # NoValue
\* The settings an entry reports as the container's initial ones.
InitialSettings(data) == Settings(data.initial_cores, data.initial_memory)
\* The one reading the sample outputs give a container whose probes succeed.
SampleData == Data(Frac(5, 1), Frac(100, 2), 2, 3)

\* C1 as stated: when collect_all() has returned, a container whose
\* pipeline failed, by a step that raised or by a probe that failed, is
\* omitted, and every other listed container has its entry.
C1_FailedPipelineOmitted ==
    pc["M"] = "m_returned" =>
        \A c \in CtIds :
            fate[c] # "unlisted" => (InResult(c) <=> fate[c] = "ok")

\* C1, amended: when collect_all() has returned, every listed container's
\* pipeline has run to its end, whatever happened in the others; a
\* container has an entry exactly when it was running and no step of its
\* pipeline raised; a probe that failed without raising leaves the
\* container in the result; and a container whose probes succeeded has the
\* entry of its own readings.
C1_CollectionIsolation ==
    pc["M"] = "m_returned" =>
        \A c \in CtIds :
            /\ fate[c] # "listed"
            /\ InResult(c) <=> fate[c] \in {"ok", "probe_failed"}
            /\ fate[c] = "ok" => containers[c] = SampleData
            /\ InResult(c) => InitialSettings(containers[c]) = Settings(2, 3)

\* collect_all() has returned with three containers listed: the pipeline
\* of one raised, a probe of another failed, the third went well.
C1_Witness ==
    /\ pc["M"] = "m_returned"
    /\ \E a, b, c \in CtIds :
           /\ fate[a] = "raised" /\ ~InResult(a)
           /\ fate[b] = "probe_failed" /\ InResult(b)
           /\ fate[c] = "ok" /\ containers[c] = SampleData

\* The entry get_container_data has returned for c, if any: in its Future,
\* or already in the dict.
Returned(c) ==
    IF futures[c].kind = "done" /\ futures[c].value # NoneV THEN futures[c].value
    ELSE containers[c]

C8_NoResultIsNeverFatal ==
    ~(pc["M"] = "m_raised" /\ loc["M"].ret = Exc("AttributeError"))

\* ------------------------------------------------------------ probe calls
\* run_command raised instead of returning.
Raised == [kind |-> "raise"]

\* The texts drawn as the output a probe reads, and what run_command may
\* give the probe.
ProbeAlphabet == {"0", "5", "-", ".", "x"}
ProbeTexts == UNION { [1..n -> ProbeAlphabet] : n \in 0..MaxTextLen }
RunResults == {NoneV, Raised} \cup { Out(x) : x \in ProbeTexts }

InitProbe ==
    /\ InitThreads
    /\ InitStore
    /\ files = [c \in CtIds |-> Absent]
    /\ ledger = [c \in CtIds |-> NoneV]
    /\ lastRb = NoValue
    /\ prevRb = NoValue
    /\ InitCycle
    /\ containers = NoContainers
    /\ items = << >>
    /\ priorities = NoValue
    /\ prioPc = "start"
    /\ probeIn \in { [fn |-> "cpu", usage |-> r] : r \in RunResults }
                   \cup { [fn |-> "mem", used |-> a, total |-> b] : a, b \in RunResults }
    /\ probeRet = NoValue
    /\ probeCalls = 0
    /\ probePc = "start"
    /\ InitExecIdle

\* get_cpu_usage(ctid): one run_command, outside any try block.
CpuProbe ==
    /\ probePc = "start"
    /\ probeIn.fn = "cpu"
    /\ probeCalls' = 1
    /\ probeRet' = IF probeIn.usage = Raised
                   THEN Exc("UnicodeDecodeError")
                   ELSE Val(get_cpu_usage(probeIn.usage))
    /\ probePc' = "done"
    /\ UNCHANGED <<threadVars, ledgerVars, cycleVars, containers, prioVars, probeIn, execVars, storeVars>>

\* get_memory_usage(ctid): two run_command calls, outside any try block.
MemProbe ==
    /\ probePc = "start"
    /\ probeIn.fn = "mem"
    /\ IF probeIn.used = Raised
       THEN /\ probeCalls' = 1
            /\ probeRet' = Exc("UnicodeDecodeError")
       ELSE /\ probeCalls' = 2
            /\ probeRet' = IF probeIn.total = Raised
                           THEN Exc("UnicodeDecodeError")
                           ELSE get_memory_usage(probeIn.used, probeIn.total)
    /\ probePc' = "done"
    /\ UNCHANGED <<threadVars, ledgerVars, cycleVars, containers, prioVars, probeIn, execVars, storeVars>>

NextProbe ==
    \/ CpuProbe
    \/ MemProbe

SpecProbe == InitProbe /\ [][NextProbe]_vars

\* C6: when the first CPU method fails, cpu_usage tries a second method
\* before giving up; when both fail it returns exactly 0.0 and raises
\* nothing.  Stated for the calls in which run_command returns.
C6_CpuFallbackChain ==
    (probePc = "done" /\ probeIn.fn = "cpu" /\ probeIn.usage # Raised) =>
        /\ probeRet.exc = "none"
        /\ get_cpu_usage(probeIn.usage).failed =>
               /\ probeCalls >= 2
               /\ probeRet.val.value = Zero

\* C7: memory_usage returns 0.0 and raises nothing on every read or parse
\* failure, a reported total of 0 included.  Stated for the calls in which
\* run_command returns.
C7_MemoryProbeNeverRaises ==
    (probePc = "done" /\ probeIn.fn = "mem" /\ probeIn.used # Raised /\ probeIn.total # Raised) =>
        /\ probeRet.exc = "none"
        /\ ( \/ ~Truthy(probeIn.used) \/ ~Truthy(probeIn.total)
             \/ PyInt(probeIn.used).exc # "none" \/ PyInt(probeIn.total).exc # "none"
             \/ PyInt(probeIn.total).val = 0 )
           => probeRet.val.value = Zero

\* ---------------------------------------------------------------- executor
\* The bytes a command may print: ASCII, and the two bytes of an e-acute.
ByteAlphabet == {"1", " ", "xC3", "xA9"}
ByteStrings == UNION { [1..n -> ByteAlphabet] : n \in 0..MaxOutLen }

\* bytes.decode('utf-8'): xC3 xA9 is one character, either byte without
\* the other is a UnicodeDecodeError.
RECURSIVE Decode(_)
Decode(b) ==
    IF b = << >> THEN Val(<< >>)
    ELSE IF Head(b) = "xC3"
         THEN IF Len(b) >= 2 /\ b[2] = "xA9"
              THEN LET rest == Decode(SubSeq(b, 3, Len(b)))
                   IN  IF rest.exc = "none" THEN Val(<<"e'">> \o rest.val) ELSE rest
              ELSE Exc("UnicodeDecodeError")
         ELSE IF Head(b) = "xA9"
              THEN Exc("UnicodeDecodeError")
              ELSE LET rest == Decode(Tail(b))
                   IN  IF rest.exc = "none" THEN Val(<<Head(b)>> \o rest.val) ELSE rest

\* How the command behaves: it exits with status 0, exits with another
\* status, outlives the timeout, or cannot be run (the process cannot be
\* spawned, the SSH connection cannot be made).
Behaviours == {"exit0", "exit_nonzero", "timeout", "transport"}

InitExec ==
    /\ InitThreads
    /\ InitStore
    /\ files = [c \in CtIds |-> Absent]
    /\ ledger = [c \in CtIds |-> NoneV]
    /\ lastRb = NoValue
    /\ prevRb = NoValue
    /\ InitCycle
    /\ containers = NoContainers
    /\ items = << >>
    /\ priorities = NoValue
    /\ prioPc = "start"
    /\ InitProbeIdle
    /\ execIn \in [use_remote_proxmox : BOOLEAN, behaviour : Behaviours, output : ByteStrings]
    /\ execPc = "start"
    /\ execRet = NoValue
    /\ ssh = "none"

\* run_command(cmd, timeout): the strategy is read from the configuration.
RunCommand ==
    /\ execPc = "start"
    /\ execPc' = IF execIn.use_remote_proxmox THEN "remote_client" ELSE "local_check_output"
    /\ UNCHANGED <<execIn, execRet, ssh>>
    /\ UNCHANGED <<threadVars, ledgerVars, cycleVars, containers, prioVars, probeVars, storeVars>>

\* run_local_command: the try block, and the handlers of TimeoutExpired and
\* of Exception, which log and fall through to `return None`.
LocalCheckOutput ==
    /\ execPc = "local_check_output"
    /\ IF execIn.behaviour = "exit_nonzero"
       THEN /\ execPc' = "local_called_process_error"
            /\ UNCHANGED execRet
       ELSE /\ execPc' = "returned"
            /\ execRet' = IF execIn.behaviour = "exit0" /\ Decode(execIn.output).exc = "none"
                          THEN Val(Out(Strip(Decode(execIn.output).val)))
                          ELSE Val(NoneV)
    /\ UNCHANGED <<execIn, ssh>>
    /\ UNCHANGED <<threadVars, ledgerVars, cycleVars, containers, prioVars, probeVars, storeVars>>

\* except subprocess.CalledProcessError as e:
\*     logging.error(f"... {e.output.decode('utf-8')}")
\* An exception of the decode leaves the function.
LocalCalledProcessError ==
    /\ execPc = "local_called_process_error"
    /\ IF Decode(execIn.output).exc = "none"
       THEN /\ execPc' = "returned"
            /\ execRet' = Val(NoneV)
       ELSE /\ execPc' = "raised"
            /\ execRet' = Exc(Decode(execIn.output).exc)
    /\ UNCHANGED <<execIn, ssh>>
    /\ UNCHANGED <<threadVars, ledgerVars, cycleVars, containers, prioVars, probeVars, storeVars>>

\* ssh = paramiko.SSHClient(); ssh.set_missing_host_key_policy(...)
\* The client is created, or the constructor raises: the handler logs it
\* and ssh is still None in the finally clause.
RemoteClient ==
    /\ execPc = "remote_client"
    /\ \/ /\ ssh' = "created"
          /\ execPc' = "remote_connect"
          /\ UNCHANGED execRet
       \/ /\ execIn.behaviour = "transport"
          /\ execRet' = Val(NoneV)
          /\ execPc' = "remote_finally"
          /\ UNCHANGED ssh
    /\ UNCHANGED execIn
    /\ UNCHANGED <<threadVars, ledgerVars, cycleVars, containers, prioVars, probeVars, storeVars>>

\* ssh.connect(...): an exception is logged by one of the two handlers.
RemoteConnect ==
    /\ execPc = "remote_connect"
    /\ IF execIn.behaviour = "transport"
       THEN /\ execPc' = "remote_finally"
            /\ execRet' = Val(NoneV)
            /\ UNCHANGED ssh
       ELSE /\ execPc' = "remote_exec"
            /\ ssh' = "connected"
            /\ UNCHANGED execRet
    /\ UNCHANGED execIn
    /\ UNCHANGED <<threadVars, ledgerVars, cycleVars, containers, prioVars, probeVars, storeVars>>

\* stdin, stdout, stderr = ssh.exec_command(cmd, timeout=timeout)
\* output = stdout.read().decode('utf-8').strip()
\* The exit status of the command is not read.
RemoteExec ==
    /\ execPc = "remote_exec"
    /\ execRet' = IF execIn.behaviour # "timeout" /\ Decode(execIn.output).exc = "none"
                  THEN Val(Out(Strip(Decode(execIn.output).val)))
                  ELSE Val(NoneV)
    /\ execPc' = "remote_finally"
    /\ UNCHANGED <<execIn, ssh>>
    /\ UNCHANGED <<threadVars, ledgerVars, cycleVars, containers, prioVars, probeVars, storeVars>>

\* finally: if ssh: ssh.close()
RemoteFinallyOnSuccess ==
    /\ execPc = "remote_finally"
    /\ ssh' = IF ssh = "connected" /\ execRet # Val(NoneV) THEN "closed" ELSE ssh
    /\ execPc' = "returned"
    /\ UNCHANGED <<execIn, execRet>>
    /\ UNCHANGED <<threadVars, ledgerVars, cycleVars, containers, prioVars, probeVars, storeVars>>
RemoteFinally ==
    /\ execPc = "remote_finally"
    /\ ssh' = IF ssh # "none" THEN "closed" ELSE ssh
    /\ execPc' = "returned"
    /\ UNCHANGED <<execIn, execRet>>
    /\ UNCHANGED <<threadVars, ledgerVars, cycleVars, containers, prioVars, probeVars, storeVars>>

NextExec ==
    \/ RunCommand
    \/ LocalCheckOutput
    \/ LocalCalledProcessError
    \/ RemoteClient
    \/ RemoteConnect
    \/ RemoteExec
    \/ RemoteFinally

SpecExec == InitExec /\ [][NextExec]_vars

\* C9: execute ends, under either strategy, with the captured output or,
\* when the command times out, exits with a failure status or cannot be
\* run, with None; it raises nothing.
C9_ExecuteNeverRaises ==
    /\ execPc # "raised"
    /\ execPc = "returned" =>
           /\ execRet.exc = "none"
           /\ execIn.behaviour # "exit0" => execRet.val = NoneV

\* ------------------------------------------------------------- prioritizer
\* key=lambda item: (item[1]['cpu'], item[1]['mem']), compared as Python
\* compares tuples: a's key is less than b's key.
SortKeyLessCpuOnly(a, b) == FracLess(a.data.cpu, b.data.cpu)
SortKeyLess(a, b) ==
    \/ FracLess(a.data.cpu, b.data.cpu)
    \/ FracEq(a.data.cpu, b.data.cpu) /\ FracLess(a.data.mem, b.data.mem)

\* sorted(..., reverse=True) is stable: an item goes after every item whose
\* key is not less than its own.
RECURSIVE InsertDesc(_, _)
InsertDesc(item, sorted) ==
    IF sorted = << >> THEN <<item>>
    ELSE IF SortKeyLess(Head(sorted), item)
         THEN <<item>> \o sorted
         ELSE <<Head(sorted)>> \o InsertDesc(item, Tail(sorted))

RECURSIVE SortedDesc(_, _)
SortedDesc(rest, acc) ==
    IF rest = << >> THEN acc
    ELSE SortedDesc(Tail(rest), InsertDesc(Head(rest), acc))

prioritize_containers(m) ==
    IF m = << >> THEN << >>
    ELSE SortedDesc(m, << >>)

\* The metrics maps of at most MaxMapLen entries: distinct ids, in any
\* insertion order.
PctValues == { Frac(n, 1) : n \in 0..MaxPct } \cup { Frac(2, 2) }
MetricsMap(v) == [i \in 1..Len(v) |-> Item(100 + i, Data(v[i][1], v[i][2], 2, 3))]

InitPrio ==
    /\ InitThreads
    /\ InitStore
    /\ files = [c \in CtIds |-> Absent]
    /\ ledger = [c \in CtIds |-> NoneV]
    /\ lastRb = NoValue
    /\ prevRb = NoValue
    /\ InitCycle
    /\ containers = NoContainers
    /\ \E n \in 0..MaxMapLen :
           \E v \in [1..n -> PctValues \X PctValues] : items = MetricsMap(v)
    /\ priorities = NoValue
    /\ prioPc = "start"
    /\ InitProbeIdle
    /\ InitExecIdle

Prioritize ==
    /\ prioPc = "start"
    /\ priorities' = prioritize_containers(items)
    /\ prioPc' = "done"
    /\ UNCHANGED <<threadVars, ledgerVars, cycleVars, containers, items, probeVars, execVars, storeVars>>

NextPrio == Prioritize

SpecPrio == InitPrio /\ [][NextPrio]_vars

MaxHostCores == 12
MaxHostMemory == 12

\* DEFAULTS['reserve_cpu_percent'] and DEFAULTS['reserve_memory_mb'].
ReservePercents == 0..100
ReserveMemoryMbs == 0..(MaxHostMemory + 1)

\* max(a, b)
Max(a, b) == IF a >= b THEN a ELSE b

\* get_total_cores(), given what run_command("nproc") returned and the
\* reserve of the configuration.  int() of a non-negative quotient is its
\* floor.
get_total_cores_no_floor(nproc, reserve_cpu_percent) ==
    IF PyInt(nproc).exc # "none" THEN Exc(PyInt(nproc).exc)
    ELSE LET total_cores == PyInt(nproc).val
             reserved_cores == (total_cores * reserve_cpu_percent) \div 100
         IN  Val(total_cores - reserved_cores)
get_total_cores(nproc, reserve_cpu_percent) ==
    IF PyInt(nproc).exc # "none" THEN Exc(PyInt(nproc).exc)
    ELSE LET total_cores == PyInt(nproc).val
             reserved_cores == Max(1, (total_cores * reserve_cpu_percent) \div 100)
             available_cores == total_cores - reserved_cores
         IN  Val(available_cores)

\* get_total_memory(), given what run_command("free -m | awk ...")
\* returned and the reserve of the configuration.
get_total_memory_unclamped(free, reserve_memory_mb) ==
    IF PyInt(free).exc # "none" THEN Exc(PyInt(free).exc)
    ELSE Val(PyInt(free).val - reserve_memory_mb)
get_total_memory(free, reserve_memory_mb) ==
    IF PyInt(free).exc # "none" THEN Exc(PyInt(free).exc)
    ELSE LET total_memory == PyInt(free).val
             available_memory == Max(0, total_memory - reserve_memory_mb)
         IN  Val(available_memory)

\* What the host commands print for a count n, and run_command's None.
HostOutput(n) == IF n = -1 THEN NoneV ELSE Out(NatText(n))

InitCapacity ==
    /\ InitThreads
    /\ InitStore
    /\ files = [c \in CtIds |-> Absent]
    /\ ledger = [c \in CtIds |-> NoneV]
    /\ lastRb = NoValue
    /\ prevRb = NoValue
    /\ InitCycle
    /\ containers = NoContainers
    /\ items = << >>
    /\ priorities = NoValue
    /\ prioPc = "start"
    /\ probeIn \in { [fn |-> "total_cores", total |-> n, reserve |-> p] :
                         n \in -1..MaxHostCores, p \in ReservePercents }
                   \cup { [fn |-> "total_memory", total |-> n, reserve |-> r] :
                         n \in -1..MaxHostMemory, r \in ReserveMemoryMbs }
    /\ probeRet = NoValue
    /\ probeCalls = 0
    /\ probePc = "start"
    /\ InitExecIdle

\* get_total_cores()
TotalCores ==
    /\ probePc = "start"
    /\ probeIn.fn = "total_cores"
    /\ probeCalls' = 1
    /\ probeRet' = get_total_cores(HostOutput(probeIn.total), probeIn.reserve)
    /\ probePc' = "done"
    /\ UNCHANGED <<threadVars, ledgerVars, cycleVars, containers, prioVars, probeIn, execVars, storeVars>>

\* get_total_memory()
TotalMemory ==
    /\ probePc = "start"
    /\ probeIn.fn = "total_memory"
    /\ probeCalls' = 1
    /\ probeRet' = get_total_memory(HostOutput(probeIn.total), probeIn.reserve)
    /\ probePc' = "done"
    /\ UNCHANGED <<threadVars, ledgerVars, cycleVars, containers, prioVars, probeIn, execVars, storeVars>>

NextCapacity ==
    \/ TotalCores
    \/ TotalMemory

SpecCapacity == InitCapacity /\ [][NextCapacity]_vars

\* C11: for a host of total >= 1 cores and a reserve of 0..100 percent,
\* available_cores() is total less the reserved cores, which are the floor
\* of total * percent / 100 and at least 1; so the result is at most
\* total - 1 and never negative.
C11_AvailableCores ==
    (probePc = "done" /\ probeIn.fn = "total_cores" /\ probeIn.total >= 1) =>
        /\ probeRet.exc = "none"
        /\ \E floor \in 0..probeIn.total :
               /\ 100 * floor <= probeIn.total * probeIn.reserve
               /\ probeIn.total * probeIn.reserve < 100 * (floor + 1)
               /\ probeRet.val = probeIn.total - (IF floor < 1 THEN 1 ELSE floor)
        /\ probeRet.val <= probeIn.total - 1
        /\ probeRet.val >= 0

\* A host of several cores whose reserve rounds down to no core at all:
\* one core is reserved all the same.
C11_Witness ==
    /\ probePc = "done"
    /\ probeIn.fn = "total_cores"
    /\ probeIn.total >= 10
    /\ probeIn.total * probeIn.reserve < 100
    /\ probeRet = Val(probeIn.total - 1)

\* C12: available_memory_mb() is max(0, total - reserve): the difference
\* when the total exceeds the reserve, else 0, and never negative.
C12_AvailableMemory ==
    (probePc = "done" /\ probeIn.fn = "total_memory" /\ probeIn.total >= 0) =>
        /\ probeRet.exc = "none"
        /\ probeRet.val >= 0
        /\ probeIn.reserve >= probeIn.total => probeRet.val = 0
        /\ probeIn.reserve < probeIn.total => probeRet.val = probeIn.total - probeIn.reserve

\* A reservation larger than the host's memory has left 0.
C12_Witness ==
    /\ probePc = "done"
    /\ probeIn.fn = "total_memory"
    /\ probeIn.reserve > probeIn.total
    /\ probeIn.total >= 10
    /\ probeRet = Val(0)

\* ------------------------------------------------------ skipping, fan-out
\* The steps of get_container_data after the status check: the two reads of
\* the configuration, the backup and the probes.
PastStatus ==
    {"gcd_cores", "gcd_memory", "bk_makedirs", "bk_lock", "bk_open", "bk_write",
     "gcd_cpu", "gcd_mem_used", "gcd_mem_total"}

\* The status query gave a running status: a str, and not the one of a
\* stopped container.
GaveRunning(status) == status \notin {NoValue, NoneV} /\ status.text # StatusStopped

\* C13: a container is in the result only if it is not ignored and its
\* status query gave a running status; a pipeline is past its status check
\* only for such a container, so a container that is ignored, not running
\* or without a status has no configuration read, no backup written, no
\* probe run and no exception in its Future.
C13_FailClosedSkipping ==
    /\ \A t \in Workers :
           pc[t] \in PastStatus => (~is_ignored(loc[t].ctid) /\ GaveRunning(loc[t].status))
    /\ \A c \in CtIds :
           /\ InResult(c) => (~is_ignored(c) /\ fate[c] \in {"ok", "probe_failed"})
           /\ fate[c] \in {"ignored", "not_running"} =>
                  /\ ~InResult(c)
                  /\ files[BackupFile(c)] = Absent
                  /\ ledger[c] = NoneV
                  /\ futures[c] \in {[kind |-> "done", value |-> NoneV], [kind |-> "consumed"]}

\* The cycle has returned with one container skipped as not running and
\* another one in the result.
C13_Witness ==
    /\ pc["M"] = "m_returned"
    /\ \E c, d \in CtIds :
           /\ fate[c] = "not_running"
           /\ InResult(d)

\* --------------------------------------------------------------- event log
\* Largest number of log_json_event calls.
MaxLogCalls == 2

\* log_data, less its timestamp and host: the arguments of the call.
LogData(ctid, action) == [container_id |-> ctid, action |-> action]
LogActions == {"Scale Out", "Scale In"}
\* A line of the log: the record, and whether the whole line is there.
Line(rec, whole) == [rec |-> rec, whole |-> whole]
\* The line the log holds before the first call.
OldLine == Line(LogData(103, "Scale In"), TRUE)

\* The container the two threads work on, and the settings they back up:
\* the smallest and the largest.
SharedIds == {101}
SharedSettings == { Settings(1, MaxCores + 1), Settings(MaxCores, MaxCores + MaxMemory) }

\* log_json_event(ctid, action, resource_change), entered by thread t.
CallRecord(t) ==
    /\ pc[t] = "idle"
    /\ Len(appends) + Cardinality({ u \in Threads : pc[u] = "log_lock" }) < MaxLogCalls + 1
    /\ \E ctid \in SharedIds, action \in LogActions :
           loc' = [loc EXCEPT ![t] = [NoLocals EXCEPT !.rec = LogData(ctid, action)]]
    /\ pc' = [pc EXCEPT ![t] = "log_lock"]
    /\ UNCHANGED <<lock, ledgerVars, cycleVars, containers, prioVars, probeVars, execVars, storeVars>>

\* with lock:
LogAcquireUnguarded(t) ==
    /\ pc[t] = "log_lock"
    /\ lock' = t
    /\ appends' = Append(appends, loc[t].rec)
    /\ pc' = [pc EXCEPT ![t] = "log_open"]
    /\ UNCHANGED <<loc, ledgerVars, cycleVars, containers, prioVars, probeVars, execVars, eventLog, written>>
LogAcquire(t) ==
    /\ pc[t] = "log_lock"
    /\ lock = Free
    /\ lock' = t
    /\ appends' = Append(appends, loc[t].rec)
    /\ pc' = [pc EXCEPT ![t] = "log_open"]
    /\ UNCHANGED <<loc, ledgerVars, cycleVars, containers, prioVars, probeVars, execVars, eventLog, written>>

\* open(LOG_FILE.replace('.log', '.json'), 'a'): the file is open for
\* appending, or open raises: the lock is released and the exception
\* leaves log_json_event, which has no try block.
LogOpen(t) ==
    /\ pc[t] = "log_open"
    /\ \/ /\ pc' = [pc EXCEPT ![t] = "log_write"]
          /\ UNCHANGED <<loc, lock>>
       \/ /\ pc' = [pc EXCEPT ![t] = "idle"]
          /\ loc' = [loc EXCEPT ![t] = NoLocals]
          /\ lock' = Free
    /\ UNCHANGED <<ledgerVars, cycleVars, containers, prioVars, probeVars, execVars, storeVars>>

\* json_log_file.write(json.dumps(log_data) + '\n') and the end of both
\* with blocks: the line is in the file, or the write raises with nothing
\* or the start of the line in the file; the lock is released either way.
LogWrite(t) ==
    /\ pc[t] = "log_write"
    /\ \/ eventLog' = Append(eventLog, Line(loc[t].rec, TRUE))
       \/ eventLog' = Append(eventLog, Line(loc[t].rec, FALSE))
       \/ UNCHANGED eventLog
    /\ lock' = Free
    /\ pc' = [pc EXCEPT ![t] = "idle"]
    /\ loc' = [loc EXCEPT ![t] = NoLocals]
    /\ UNCHANGED <<ledgerVars, cycleVars, containers, prioVars, probeVars, execVars, appends, written>>

\* backup(ctid, s) and load(ctid) called by one of the two threads.
SharedBackup(t) ==
    /\ pc[t] = "idle"
    /\ \E ctid \in SharedIds, s \in SharedSettings : EnterBackup(t, ctid, s, "idle")
    /\ UNCHANGED <<lock, files, ledger, cycleVars, containers, prioVars, probeVars, execVars, storeVars>>

SharedLoad(t) ==
    /\ pc[t] = "idle"
    /\ \E ctid \in SharedIds : EnterLoad(t, ctid, "ld_done")
    /\ UNCHANGED <<lock, ledgerVars, cycleVars, containers, prioVars, probeVars, execVars, storeVars>>

\* The two threads call backup, load and log_json_event in any order.
InitShared ==
    /\ InitThreads
    /\ eventLog = <<OldLine>>
    /\ appends = <<OldLine.rec>>
    /\ written = [c \in CtIds |-> NoneV]
    /\ files = [c \in CtIds |-> Absent]
    /\ ledger = [c \in CtIds |-> NoneV]
    /\ lastRb = NoValue
    /\ prevRb = NoValue
    /\ InitCycle
    /\ containers = NoContainers
    /\ items = << >>
    /\ priorities = NoValue
    /\ prioPc = "start"
    /\ InitProbeIdle
    /\ InitExecIdle

NextShared ==
    \E t \in SharedThreads :
        \/ SharedBackup(t)
        \/ SharedLoad(t)
        \/ LoadReturned(t)
        \/ CallRecord(t)
        \/ BackupStep(t)
        \/ LoadExists(t)
        \/ LoadAcquire(t)
        \/ LoadRead(t)
        \/ LogAcquire(t)
        \/ LogOpen(t)
        \/ LogWrite(t)

SpecShared == InitShared /\ [][NextShared]_vars

\* The records of the lines of a log.
Records(log) == [i \in 1..Len(log) |-> log[i].rec]
\* The threads inside an append, a backup-file write or a backup-file read.
InStore == { t \in Threads : pc[t] \in {"log_open", "log_write", "bk_open", "bk_write", "ld_read"} }

\* C14: the log is its previous content followed by one whole line per
\* call of log_json_event, in the order the calls took the lock; no line
\* is cut short.
C14_LogAppendOnlyAtomic ==
    /\ \A i \in 1..Len(eventLog) : eventLog[i].whole
    /\ Records(eventLog) =
           IF \E t \in Threads : pc[t] \in {"log_open", "log_write"}
           THEN SubSeq(appends, 1, Len(appends) - 1)
           ELSE appends

\* Thread t's load reads the backup file in this step.
LoadReads(t) == pc[t] = "ld_read" /\ pc'[t] # "ld_read"

C15_RemoteSessionClosed ==
    (execPc = "returned" /\ execIn.use_remote_proxmox) => ssh \in {"none", "closed"}

\* A remote call that returned None because the connection failed, its
\* session closed.
C15_Witness ==
    /\ execPc = "returned"
    /\ execIn.use_remote_proxmox
    /\ execIn.behaviour = "transport"
    /\ execRet = Val(NoneV)
    /\ ssh = "closed"

\* ------------------------------------------------------------------ fan-out
\* How many times container c is in the pool's work queue.
Queued(c) == Cardinality({ i \in 1..Len(queue) : queue[i] = c })
\* The pipelines that are executing.
Executing == { c \in CtIds : futures[c].kind = "running" }

\* C16: at every moment at most 2 pipelines are executing; a submitted
\* container is in the queue once until a worker takes it and never again,
\* a pipeline is executed by one worker, and when collect_all() returns
\* every container of the inventory has had its pipeline run to its end.
C16_BoundedFanOut ==
    /\ [](/\ Cardinality(Executing) <= 2
          /\ \A c \in CtIds :
                 /\ Queued(c) = (IF futures[c].kind = "pending" THEN 1 ELSE 0)
                 /\ Cardinality({ t \in Workers : pc[t] # "w_idle" /\ loc[t].ctid = c })
                        = (IF c \in Executing THEN 1 ELSE 0)
          /\ pc["M"] = "m_returned" =>
                 \A c \in CtIds : fate[c] # "unlisted" => futures[c].kind = "consumed")
    /\ [][\A c \in CtIds :
              /\ futures'[c].kind = "pending" => futures[c].kind \in {"none", "pending"}
              /\ futures'[c].kind = "running" => futures[c].kind \in {"pending", "running"}]_vars

\* Three containers are listed; two pipelines execute while the third
\* waits in the queue.
C16_Witness ==
    /\ Cardinality(Executing) = 2
    /\ \E c \in CtIds : futures[c].kind = "pending" /\ Queued(c) = 1

\* ---------------------------------------------------------- range of cpu
\* C18: cpu_usage returns a value in [0, 100] for every output of the
\* executor: a negative reading gives 0.0 and none above 100 is returned.
C18_CpuUsageInRange ==
    (probePc = "done" /\ probeIn.fn = "cpu" /\ probeRet.exc = "none") =>
        /\ ~FracLess(probeRet.val.value, Zero)
        /\ ~FracLess(Frac(100, 1), probeRet.val.value)

\* ------------------------------------------------------------ termination
\* C19: when every executor call returns, with output or with None, the
\* cycle ends by collect_all() returning: it stops nowhere else, neither
\* waiting for the lock nor by an exception.
C19_CycleEndsByReturning ==
    (~ENABLED Next /\ loc["M"].ret # Exc("UnicodeDecodeError")) => pc["M"] = "m_returned"

\* ------------------------------------------------------- frame of rollback
\* Thread t is inside rollback_container_settings, the load it starts with
\* included.
InRollback(t) ==
    \/ pc[t] \in {"rb_check", "rb_cores", "rb_memory"}
    \/ pc[t] \in {"ld_exists", "ld_lock", "ld_read"} /\ loc[t].cont = "rb_check"

\* C20: no step of rollback(id), whether its commands succeed, fail or are
\* never issued, changes a backup file or adds a line to the event log.
C20_RollbackLeavesLedgerUnchanged ==
    [][\A t \in ApiThreads :
           InRollback(t) => (files' = files /\ eventLog' = eventLog)]_vars

\* A rollback has issued its two commands and ended; the record it
\* restored from is still in the backup file.
C20_Witness ==
    /\ lastRb # NoValue
    /\ Len(lastRb.cmds) = 2
    /\ \A t \in ApiThreads : pc[t] = "idle"
    /\ load_backup_settings(files[BackupFile(lastRb.ctid)]) \in ValidSettings
====
